---- MODULE Spec2Model ----
(***************************************************************************)
(* A model of VideoDataMosh:                                               *)
(*   - VideoProcessor.corruptIFrames, the NAL unit scanner (a pure         *)
(*     function over byte sequences),                                      *)
(*   - VideoProcessor.init / datamoshVideo, the offline transcoder driving *)
(*     the ffmpeg engine through its awaited steps,                        *)
(*   - the TrippyVideoCanvas initialisation effect and its cleanup.        *)
(***************************************************************************)
EXTENDS Integers, Sequences, FiniteSets, TLC

VARIABLES
    \* ---- corruptIFrames ----
    data,        \* the input Uint8Array of the call
    out,         \* the Uint8Array the call returned
    out2,        \* what a second call, given out, returned
    cpc,         \* "idle" | "ready" | "done" | "again"
    \* ---- VideoProcessor: init / datamoshVideo ----
    initialized, \* this.initialized
    loadCount,   \* how many times ffmpeg.load() has been invoked
    loadThrew,   \* whether some ffmpeg.load() has thrown
    fs,          \* the engine's file namespace: name -> content
    pc,          \* per call slot: the awaited step the call is at
    callId,      \* per call slot: the identity of the running call (0: none)
    rawData,     \* per call slot: the local rawData
    outputData,  \* per call slot: the local outputData
    result,      \* per call slot: how the returned promise settled
    failed,      \* per call slot: the first stage whose engine invocation failed
    nextId,      \* the identity the next call gets
    \* ---- App and TrippyVideoCanvas ----
    now,         \* the clock requestAnimationFrame reads
    viewport,    \* the size of the container element
    videoUrl,    \* App's videoUrl: the mounted canvas (0: null)
    isPlaying,   \* App's isPlaying
    effects,     \* App's effects
    scene,       \* per canvas instance: sceneRef.current, the effect's
                 \* locals and the DOM objects they hold
    \* ---- App: parameters, object URLs and datamosh jobs ----
    iFrameInterval, \* App's iFrameInterval
    edits,       \* how many slider changes and resets have been made
    revoked,     \* the object URLs URL.revokeObjectURL was called on
    isProcessing, \* App's isProcessing
    job          \* per call slot: the run of App.datamoshCurrentVideo

corruptVars == <<data, out, out2, cpc>>
procVars == <<initialized, loadCount, loadThrew, fs, pc, callId, rawData,
              outputData, result, failed, nextId>>
canvasVars == <<now, viewport, videoUrl, isPlaying, effects, scene>>
appVars == <<iFrameInterval, edits, revoked, isProcessing, job>>

----------------------------------------------------------------------------
(* Bounds of the corruptIFrames inputs *)

\* longest enumerated input
MaxLen == 6

\* byte values the enumerated inputs are built from: 0x00, 0x01, 0x65 (a
\* type-5 header byte), 0x41 (a type-1 header byte)
Bytes == {0, 1, 101, 65}

RECURSIVE SeqsUpTo(_)
SeqsUpTo(n) ==
    IF n = 0 THEN {<<>>}
    ELSE LET shorter == SeqsUpTo(n - 1)
         IN  shorter \cup {Append(s, b) : s \in {t \in shorter : Len(t) = n - 1}, b \in Bytes}

\* the example stream of the specification: a type-5 unit, then a type-1 unit
ExampleStream == <<0, 0, 0, 1, 101, 170, 187, 0, 0, 0, 1, 65, 204, 221>>
\* a type-1 unit followed by a trailing type-5 unit
TrailingIdr == <<0, 0, 0, 1, 65, 204, 0, 0, 0, 1, 101, 170, 187>>
\* two type-5 units back to back, then a type-1 unit
BackToBack == <<0, 0, 0, 1, 101, 0, 0, 0, 1, 101, 170, 0, 0, 0, 1, 65, 204>>

Inputs == SeqsUpTo(MaxLen) \cup {ExampleStream, TrailingIdr, BackToBack}

----------------------------------------------------------------------------
(* VideoProcessor.corruptIFrames *)

\* const iFrameIdentifier = 0x65
iFrameIdentifier == 101

\* data[i] with the JavaScript (0-based) index
At(d, i) == d[i + 1]

\* data[i + 4] & 0x1F
NalType(d, i) == At(d, i + 4) % 32

\* the test for the NAL start code at index i
IsStartCode(d, i) ==
    /\ At(d, i) = 0
    /\ At(d, i + 1) = 0
    /\ At(d, i + 2) = 0
    /\ At(d, i + 3) = 1

\* output[pos] = b on a typed array (pos is always within its length here)
Store(output, pos, b) == [output EXCEPT ![pos + 1] = b]

\* new Uint8Array(n): n zero bytes
ZeroBytes(n) == [k \in 1..n |-> 0]

\* the for loop, from index i on, with the loop's locals
RECURSIVE Scan(_, _, _, _, _)
Scan(d, i, output, outputPos, inIFrame) ==
    IF ~(i < Len(d) - 4)
    THEN [output |-> output, outputPos |-> outputPos]
    ELSE IF IsStartCode(d, i)
         THEN IF NalType(d, i) = iFrameIdentifier
              THEN Scan(d, i + 4 + 1, output, outputPos, TRUE)
              ELSE Scan(d, i + 1, Store(output, outputPos, At(d, i)), outputPos + 1, FALSE)
         ELSE IF ~inIFrame
              THEN Scan(d, i + 1, Store(output, outputPos, At(d, i)), outputPos + 1, inIFrame)
              ELSE Scan(d, i + 1, output, outputPos, inIFrame)

\* a corruptIFrames without the copy of the remaining bytes
CopyNothing(d, output, outputPos) == [output |-> output, outputPos |-> outputPos]

\* the while loop "Copy remaining bytes"
RECURSIVE CopyRemaining(_, _, _)
CopyRemaining(d, output, outputPos) ==
    IF outputPos < Len(d)
    THEN CopyRemaining(d, Store(output, outputPos, At(d, outputPos)), outputPos + 1)
    ELSE [output |-> output, outputPos |-> outputPos]

\* a slice that returns the whole buffer and one byte more
SliceLong(output, n) == output \o <<0>>

\* a slice that stops one byte early
SliceShort(output, n) == SubSeq(output, 1, n - 1)

\* output.slice(0, outputPos)
Slice(output, n) == SubSeq(output, 1, n)

\* the scan's result before the copy of the remaining bytes
ScanResult(d) == Scan(d, 0, ZeroBytes(Len(d)), 0, FALSE)

corruptIFrames(d) ==
    LET scanned == ScanResult(d)
        copied  == CopyRemaining(d, scanned.output, scanned.outputPos)
    IN  Slice(copied.output, copied.outputPos)

----------------------------------------------------------------------------
(* VideoProcessor.init and VideoProcessor.datamoshVideo *)

\* invocations of datamoshVideo in one behaviour
MaxCalls == 2

\* the call slots: up to two invocations of datamoshVideo on the one
\* VideoProcessor are in flight at a time
Procs == {1, 2}

\* the four temporaries of datamoshVideo
Files == {"input.mp4", "raw.h264", "corrupted.h264", "output.mp4"}

\* A file's content is known by the call that wrote it and by the call whose
\* input bytes it was derived from; NoFile: the name does not exist.
NoFile == [writer |-> 0, origin |-> 0]
Content(w, o) == [writer |-> w, origin |-> o]

\* the settled state of the promise datamoshVideo returned
Pending == [kind |-> "pending", value |-> "none", origin |-> 0]
\* return new Blob([outputData]): resolved with the bytes read from output.mp4
Resolved(c) == [kind |-> "resolved", value |-> "Blob", origin |-> c.origin]
\* an engine call threw: the exception leaves datamoshVideo as it is, no
\* try/catch wraps it
Rejected == [kind |-> "rejected", value |-> "EngineError", origin |-> 0]

\* the awaited engine invocations, in the order of the code
EngineStages == {"load", "writeInput", "encode", "readRaw", "writeCorrupted",
                 "remux", "readOutput", "delInput", "delRaw", "delCorrupted",
                 "delOutput"}

InitProc ==
    /\ initialized = FALSE
    /\ loadCount = 0
    /\ loadThrew = FALSE
    /\ fs = [f \in Files |-> NoFile]
    /\ pc = [p \in Procs |-> "idle"]
    /\ callId = [p \in Procs |-> 0]
    /\ rawData = [p \in Procs |-> NoFile]
    /\ outputData = [p \in Procs |-> NoFile]
    /\ result = [p \in Procs |-> Pending]
    /\ failed = [p \in Procs |-> "none"]
    /\ nextId = 1

\* the first failing stage of a call is kept
NoteFailure(p, stage) ==
    failed' = [failed EXCEPT ![p] = IF failed[p] = "none" THEN stage ELSE failed[p]]

\* datamoshVideo is invoked; it runs init() up to its first await:
\* with initialized false, ffmpeg.load() is invoked and awaited
DatamoshVideoCall(p) ==
    /\ pc[p] = "idle"
    /\ nextId <= MaxCalls
    /\ callId' = [callId EXCEPT ![p] = nextId]
    /\ nextId' = nextId + 1
    /\ result' = [result EXCEPT ![p] = Pending]
    /\ failed' = [failed EXCEPT ![p] = "none"]
    /\ IF ~initialized
       THEN /\ loadCount' = loadCount + 1
            /\ pc' = [pc EXCEPT ![p] = "load"]
       ELSE /\ loadCount' = loadCount
            /\ pc' = [pc EXCEPT ![p] = "writeInput"]
    /\ UNCHANGED <<initialized, loadThrew, fs, rawData, outputData>>

\* datamoshVideo invoked by a caller that is not modelled further
DatamoshVideo(p) ==
    /\ DatamoshVideoCall(p)
    /\ UNCHANGED <<corruptVars, canvasVars, appVars>>

\* await this.ffmpeg.load() returns; this.initialized = true
LoadDone(p) ==
    /\ pc[p] = "load"
    /\ initialized' = TRUE
    /\ pc' = [pc EXCEPT ![p] = "writeInput"]
    /\ UNCHANGED <<loadCount, loadThrew, fs, callId, rawData, outputData, result,
                   failed, nextId>>
    /\ UNCHANGED <<corruptVars, canvasVars, appVars>>

\* await this.ffmpeg.writeFile('input.mp4', inputData)
WriteInput(p) ==
    /\ pc[p] = "writeInput"
    /\ fs' = [fs EXCEPT !["input.mp4"] = Content(callId[p], callId[p])]
    /\ pc' = [pc EXCEPT ![p] = "encode"]
    /\ UNCHANGED <<initialized, loadCount, loadThrew, callId, rawData, outputData,
                   result, failed, nextId>>
    /\ UNCHANGED <<corruptVars, canvasVars, appVars>>

\* await this.ffmpeg.exec(['-i', 'input.mp4', ..., 'raw.h264']) returns 0:
\* the engine read input.mp4 and wrote raw.h264
Encode(p) ==
    /\ pc[p] = "encode"
    /\ fs["input.mp4"] # NoFile
    /\ fs' = [fs EXCEPT !["raw.h264"] = Content(callId[p], fs["input.mp4"].origin)]
    /\ pc' = [pc EXCEPT ![p] = "readRaw"]
    /\ UNCHANGED <<initialized, loadCount, loadThrew, callId, rawData, outputData,
                   result, failed, nextId>>
    /\ UNCHANGED <<corruptVars, canvasVars, appVars>>

\* const rawData = await this.ffmpeg.readFile('raw.h264'); a Uint8Array, so
\* the instanceof test passes, and corruptIFrames(rawData) is computed
ReadRaw(p) ==
    /\ pc[p] = "readRaw"
    /\ fs["raw.h264"] # NoFile
    /\ rawData' = [rawData EXCEPT ![p] = fs["raw.h264"]]
    /\ pc' = [pc EXCEPT ![p] = "writeCorrupted"]
    /\ UNCHANGED <<initialized, loadCount, loadThrew, fs, callId, outputData,
                   result, failed, nextId>>
    /\ UNCHANGED <<corruptVars, canvasVars, appVars>>

\* await this.ffmpeg.writeFile('corrupted.h264', corruptedData)
WriteCorrupted(p) ==
    /\ pc[p] = "writeCorrupted"
    /\ fs' = [fs EXCEPT !["corrupted.h264"] = Content(callId[p], rawData[p].origin)]
    /\ pc' = [pc EXCEPT ![p] = "remux"]
    /\ UNCHANGED <<initialized, loadCount, loadThrew, callId, rawData, outputData,
                   result, failed, nextId>>
    /\ UNCHANGED <<corruptVars, canvasVars, appVars>>

\* await this.ffmpeg.exec(['-i', 'corrupted.h264', ..., 'output.mp4']) returns 0
Remux(p) ==
    /\ pc[p] = "remux"
    /\ fs["corrupted.h264"] # NoFile
    /\ fs' = [fs EXCEPT !["output.mp4"] = Content(callId[p], fs["corrupted.h264"].origin)]
    /\ pc' = [pc EXCEPT ![p] = "readOutput"]
    /\ UNCHANGED <<initialized, loadCount, loadThrew, callId, rawData, outputData,
                   result, failed, nextId>>
    /\ UNCHANGED <<corruptVars, canvasVars, appVars>>

\* const outputData = await this.ffmpeg.readFile('output.mp4')
ReadOutput(p) ==
    /\ pc[p] = "readOutput"
    /\ fs["output.mp4"] # NoFile
    /\ outputData' = [outputData EXCEPT ![p] = fs["output.mp4"]]
    /\ pc' = [pc EXCEPT ![p] = "delInput"]
    /\ UNCHANGED <<initialized, loadCount, loadThrew, fs, callId, rawData, result,
                   failed, nextId>>
    /\ UNCHANGED <<corruptVars, canvasVars, appVars>>

\* the file an awaited deleteFile removes, and the step after it
DeleteTarget(stage) ==
    CASE stage = "delInput" -> "input.mp4"
      [] stage = "delRaw" -> "raw.h264"
      [] stage = "delCorrupted" -> "corrupted.h264"
      [] stage = "delOutput" -> "output.mp4"

AfterDelete(stage) ==
    CASE stage = "delInput" -> "delRaw"
      [] stage = "delRaw" -> "delCorrupted"
      [] stage = "delCorrupted" -> "delOutput"
      [] stage = "delOutput" -> "resolved"

\* one of the four await this.ffmpeg.deleteFile(...); after the last,
\* return new Blob([outputData], ...)
DeleteFile(p) ==
    /\ pc[p] \in {"delInput", "delRaw", "delCorrupted", "delOutput"}
    /\ fs[DeleteTarget(pc[p])] # NoFile
    /\ fs' = [fs EXCEPT ![DeleteTarget(pc[p])] = NoFile]
    /\ pc' = [pc EXCEPT ![p] = AfterDelete(pc[p])]
    /\ result' = [result EXCEPT ![p] =
                     IF pc[p] = "delOutput" THEN Resolved(outputData[p]) ELSE result[p]]
    /\ UNCHANGED <<initialized, loadCount, loadThrew, callId, rawData, outputData,
                   failed, nextId>>
    /\ UNCHANGED <<corruptVars, canvasVars, appVars>>

\* An awaited engine invocation throws (the engine rejects the call; reading
\* or deleting a name that does not exist always does). No try/catch/finally
\* surrounds any of them: the exception rejects datamoshVideo's promise and
\* the statements after the await, the four deleteFile among them, are not run.
EngineThrows(p) ==
    /\ pc[p] \in EngineStages
    /\ pc' = [pc EXCEPT ![p] = "rejected"]
    /\ result' = [result EXCEPT ![p] = Rejected]
    /\ loadThrew' = (loadThrew \/ pc[p] = "load")
    /\ NoteFailure(p, pc[p])
    /\ UNCHANGED <<initialized, loadCount, fs, callId, rawData, outputData, nextId>>
    /\ UNCHANGED <<corruptVars, canvasVars, appVars>>

\* ffmpeg.exec resolves with a non-zero exit code (the engine could not open
\* its input or could not encode); the code never looks at the value exec
\* returns and goes on to the next statement. The output name is left as it was.
ExecReportsFailure(p) ==
    /\ pc[p] \in {"encode", "remux"}
    /\ pc' = [pc EXCEPT ![p] = IF pc[p] = "encode" THEN "readRaw" ELSE "readOutput"]
    /\ NoteFailure(p, pc[p])
    /\ UNCHANGED <<initialized, loadCount, loadThrew, fs, callId, rawData,
                   outputData, result, nextId>>
    /\ UNCHANGED <<corruptVars, canvasVars, appVars>>

\* the caller has seen the settled promise; the slot is free for a later call
SlotFreed(p) ==
    /\ pc[p] \in {"resolved", "rejected"}
    /\ pc' = [pc EXCEPT ![p] = "idle"]
    /\ callId' = [callId EXCEPT ![p] = 0]
    /\ rawData' = [rawData EXCEPT ![p] = NoFile]
    /\ outputData' = [outputData EXCEPT ![p] = NoFile]
    /\ UNCHANGED <<initialized, loadCount, loadThrew, fs, result, failed, nextId>>

Settled(p) ==
    /\ SlotFreed(p)
    /\ UNCHANGED <<corruptVars, canvasVars, appVars>>

\* a call made while no other call is in flight
DatamoshVideoAlone(p) ==
    /\ \A q \in Procs : pc[q] = "idle"
    /\ DatamoshVideo(p)

----------------------------------------------------------------------------
(* App (the state TrippyVideoCanvas receives) and TrippyVideoCanvas *)

\* the latest value of the clock
MaxTime == 2
\* how many times the cleanup of one canvas is run
MaxCleanups == 2
\* how many slider changes and resets a behaviour makes
MaxEdits == 1

\* The object URLs App creates, and with them the canvas instances:
\* <TrippyVideoCanvas key={videoUrl}> is a new component instance, with a
\* sceneRef of its own, for every video URL.
Sessions == {1, 2, 3}

\* the sizes the container takes
Sizes == {1, 2}

\* defaultEffects, in units of 0.0001
defaultEffects ==
    [waveIntensity |-> 200, waveFrequency |-> 400000, colorShift |-> 0,
     speed |-> 20000, glitchAmount |-> 0, scanlineIntensity |-> 1000,
     staticAmount |-> 500, trackingNoiseAmount |-> 1000,
     chromaticAberration |-> 20, verticalJitter |-> 10]

\* A canvas instance before its first render: sceneRef.current holds nulls.
\*   phase      "fresh" | "mounted" (rendered, effects not yet run) |
\*              "bound" (the initialisation effect has run) |
\*              "disposed" (its cleanup has run)
\*   container  containerRef.current is the rendered div
\*   video      sceneRef.current.video is a video element; paused, src,
\*              position, loop, muted are that element's state;
\*              timeupdateListeners counts its registered listeners and
\*              timeupdateQueued says a timeupdate event is queued on it
\*   renderer   "none" | "live" | "disposed"; disposeCalls counts
\*              renderer.dispose(); canvasAttached: renderer.domElement is
\*              a child of the container
\*   texture, material   "none" | "live" | "disposed"
\*   uniforms   the ten effect uniforms; uTime, uResolution the other two
\*   lastTime   the effect's local lastTime
\*   resizeListener   handleResize is registered on window
\*   animationId, framePending   sceneRef.current.animationId (0: null) and
\*              whether the requested animation frame is still to come;
\*              requests counts the animation frame requests of this
\*              canvas' animate that are neither run nor cancelled
\*   drawnAt    the time at which animate last ran
\*   contextFailed   new THREE.WebGLRenderer threw in the initialisation
\*              effect
\*   decodable  whether the browser can decode what the URL refers to
\*   closureEffects   the effects prop the closure of the initialisation
\*              effect captured (the props of the render that queued it)
\*   effectsPending   the effects update effect is queued to run
\*   materialsCreated   how many ShaderMaterial objects were constructed
\*   drawn      the ten uniforms as renderer.render last read them;
\*              drawnSinceWrite: a frame was rendered since they were
\*              last written
\*   cleanupCalls, cleanupThrew, deliveredAfterCleanup   what has been
\*              observed of the instance: runs of its cleanup, whether one
\*              threw, whether onTimeUpdate was called after a cleanup
FreshScene ==
    [phase |-> "fresh", container |-> FALSE,
     video |-> FALSE, paused |-> TRUE, src |-> FALSE, position |-> 0,
     loop |-> FALSE, muted |-> FALSE,
     timeupdateListeners |-> 0, timeupdateQueued |-> FALSE,
     renderer |-> "none", disposeCalls |-> 0, canvasAttached |-> FALSE,
     rendererSize |-> 0,
     texture |-> "none", material |-> "none",
     uniforms |-> defaultEffects, uTime |-> 0, uResolution |-> 0,
     lastTime |-> 0, resizeListener |-> FALSE,
     animationId |-> 0, framePending |-> FALSE, requests |-> 0,
     drawnAt |-> 0, contextFailed |-> FALSE,
     decodable |-> TRUE, closureEffects |-> defaultEffects,
     effectsPending |-> FALSE, materialsCreated |-> 0,
     drawn |-> defaultEffects, drawnSinceWrite |-> FALSE,
     cleanupCalls |-> 0, cleanupThrew |-> FALSE, deliveredAfterCleanup |-> FALSE]

InitCanvas ==
    /\ now \in 0..1
    /\ viewport = 1
    /\ videoUrl = 0
    /\ isPlaying = FALSE
    /\ effects = defaultEffects
    /\ scene = [s \in Sessions |-> FreshScene]

\* A run of App.datamoshCurrentVideo: stage is "fetch" while fetch and
\* response.blob() are awaited, "transcode" while datamoshVideo is awaited,
\* "done" or "failed" when the handler has returned; url and interval are
\* the videoUrl and iFrameInterval its closure captured; alerted: the catch
\* block has shown the alert.
\* no job: App.datamoshCurrentVideo has not run in the slot
NoJob == [stage |-> "idle", url |-> 0, interval |-> 0, alerted |-> FALSE]

InitApp ==
    /\ iFrameInterval = 12
    /\ edits = 0
    /\ revoked = {}
    /\ isProcessing = FALSE
    /\ job = [p \in Procs |-> NoJob]

\* handleResize, lines 196-202
handleResize(r, size) ==
    IF ~r.container \/ r.renderer = "none" \/ r.material = "none"
    THEN r
    ELSE [r EXCEPT !.rendererSize = size, !.uResolution = size]

\* animate(time), lines 208-217; uTime is kept in the unit of time
animate(r, time) ==
    IF r.material = "none" \/ r.renderer = "none"
    THEN r
    ELSE [r EXCEPT !.uTime = @ + (time - r.lastTime),
                   !.lastTime = time,
                   \* renderer.render(scene, camera)
                   !.drawn = r.uniforms,
                   !.drawnSinceWrite = TRUE,
                   !.drawnAt = now,
                   \* requestAnimationFrame(animate)
                   !.animationId = 1,
                   !.framePending = TRUE,
                   !.requests = @ + 1]

\* a play/pause effect that also stops the draw loop when it pauses
playPauseEffectStoppingLoop(r, playing) ==
    IF ~r.video THEN r
    ELSE IF playing THEN [r EXCEPT !.paused = FALSE]
         ELSE [r EXCEPT !.paused = TRUE, !.framePending = FALSE, !.requests = 0]

\* the play/pause effect, lines 244-252
playPauseEffect(r, playing) ==
    IF ~r.video THEN r
    ELSE IF playing THEN [r EXCEPT !.paused = FALSE]
         ELSE [r EXCEPT !.paused = TRUE]

\* an effects update that leaves uVerticalJitter out
effectsEffectWithoutJitter(r, e) ==
    IF r.material = "none" THEN r
    ELSE [r EXCEPT !.uniforms = [e EXCEPT !.verticalJitter = r.uniforms.verticalJitter],
                   !.drawnSinceWrite = FALSE]

\* the effects update effect, lines 255-269
effectsEffect(r, e) ==
    IF r.material = "none" THEN r
    ELSE [r EXCEPT !.uniforms = e, !.drawnSinceWrite = FALSE]

\* an initialisation that builds the material with the default values
\* instead of the effects prop
initEffectWithDefaults(r, e, size) ==
    LET created ==
            [r EXCEPT !.phase = "bound",
                      !.video = TRUE, !.src = TRUE, !.loop = TRUE,
                      !.muted = TRUE, !.paused = TRUE, !.position = 0,
                      !.timeupdateListeners = @ + 1,
                      !.renderer = "live", !.rendererSize = size,
                      !.canvasAttached = TRUE,
                      !.texture = "live",
                      !.material = "live", !.uniforms = defaultEffects, !.uTime = 0,
                      !.uResolution = 0, !.materialsCreated = @ + 1,
                      !.drawnSinceWrite = FALSE,
                      !.resizeListener = TRUE,
                      !.lastTime = 0]
    IN  animate(handleResize(created, size), 0)

\* the initialisation effect, lines 41-218
initEffect(r, e, size) ==
    LET created ==
            [r EXCEPT !.phase = "bound",
                      \* document.createElement('video'), src, loop, muted
                      !.video = TRUE, !.src = TRUE, !.loop = TRUE,
                      !.muted = TRUE, !.paused = TRUE, !.position = 0,
                      \* video.addEventListener('timeupdate', ...)
                      !.timeupdateListeners = @ + 1,
                      \* new THREE.WebGLRenderer, setSize, appendChild
                      !.renderer = "live", !.rendererSize = size,
                      !.canvasAttached = TRUE,
                      \* new THREE.VideoTexture(video)
                      !.texture = "live",
                      \* new THREE.ShaderMaterial({uniforms: ...})
                      !.material = "live", !.uniforms = e, !.uTime = 0,
                      !.uResolution = 0, !.materialsCreated = @ + 1,
                      !.drawnSinceWrite = FALSE,
                      \* window.addEventListener('resize', handleResize)
                      !.resizeListener = TRUE,
                      !.lastTime = 0]
    IN  animate(handleResize(created, size), 0)

\* the initialisation effect when new THREE.WebGLRenderer throws (no WebGL
\* context is to be had): lines 41-57 have run, the exception leaves the
\* effect at line 64 and no cleanup is returned
initEffectContextFails(r) ==
    [r EXCEPT !.phase = "failed", !.contextFailed = TRUE,
              !.video = TRUE, !.src = TRUE, !.loop = TRUE,
              !.muted = TRUE, !.paused = TRUE, !.position = 0,
              !.timeupdateListeners = @ + 1]

\* removeChild(renderer.domElement) throws NotFoundError when the element is
\* not a child of the container
RemoveChildThrows(r) == r.renderer # "none" /\ r.container /\ ~r.canvasAttached

\* the video part of the cleanup, lines 232-239. removeEventListener is
\* given a new arrow function, which is no registered listener: nothing is
\* removed. pause(), src = '' and load() unload the element; load() resets
\* the playback position and, when that changes it, queues a timeupdate.
cleanupVideo(r) ==
    IF ~r.video THEN r
    ELSE [r EXCEPT !.paused = TRUE, !.src = FALSE, !.position = 0,
                   !.timeupdateQueued = (r.position # 0)]

\* a cleanup without cancelAnimationFrame
cleanupWithoutCancel(r) ==
    LET cancelled == [r EXCEPT !.resizeListener = FALSE,
                               !.cleanupCalls = @ + 1]
        released == IF cancelled.renderer # "none"
                    THEN [cancelled EXCEPT
                             !.renderer = "disposed",
                             !.disposeCalls = @ + 1,
                             !.canvasAttached = IF cancelled.container THEN FALSE ELSE @]
                    ELSE cancelled
    IN  IF RemoveChildThrows(cancelled)
        THEN [released EXCEPT !.cleanupThrew = TRUE]
        ELSE cleanupVideo(released)

\* the cleanup the initialisation effect returns, lines 221-240;
\* cancelAnimationFrame(animationId) cancels the request made last
cleanup(r) ==
    LET unlistened == [r EXCEPT !.resizeListener = FALSE,
                                !.cleanupCalls = @ + 1]
        cancelled == IF unlistened.animationId # 0 /\ unlistened.requests > 0
                     THEN [unlistened EXCEPT !.requests = @ - 1,
                                             !.framePending = (unlistened.requests > 1)]
                     ELSE unlistened
        released == IF cancelled.renderer # "none"
                    THEN [cancelled EXCEPT
                             !.renderer = "disposed",
                             !.disposeCalls = @ + 1,
                             !.canvasAttached = IF cancelled.container THEN FALSE ELSE @]
                    ELSE cancelled
    IN  IF RemoveChildThrows(cancelled)
        THEN [released EXCEPT !.cleanupThrew = TRUE]
        ELSE cleanupVideo(released)

\* a source change that runs the initialisation effect again without the
\* cleanup of its previous run
changeSourceWithoutCleanup(r, decodable) ==
    initEffect([r EXCEPT !.decodable = decodable,
                         !.timeupdateListeners = 0, !.timeupdateQueued = FALSE],
               effects, viewport)

\* The videoUrl prop of a bound canvas changes and nothing else: the
\* dependencies [videoUrl] of the initialisation effect have changed, so
\* its cleanup runs and then the effect again, with a new video element
\* (the record follows sceneRef: the listeners and the queued event of the
\* old element are not counted any more). The play/pause effect and the
\* effects update effect, whose dependencies are as before, do not run.
changeSource(r, decodable) ==
    initEffect([cleanup(r) EXCEPT !.decodable = decodable,
                                  !.timeupdateListeners = 0,
                                  !.timeupdateQueued = FALSE],
               effects, viewport)

\* the three effects of a canvas run for the first time, in source order,
\* each with the props of the render that queued it
runEffects(r, playing) ==
    effectsEffect(
        playPauseEffect(initEffect(r, r.closureEffects, viewport), playing),
        r.closureEffects)

\* a canvas is rendered again: Preact first runs the effects that are still
\* queued from its previous render (whose effects prop was e)
rerender(r, e, playing) ==
    IF r.phase = "mounted" THEN runEffects(r, playing)
    ELSE IF r.phase = "bound" /\ r.effectsPending
         THEN [effectsEffect(r, e) EXCEPT !.effectsPending = FALSE]
    ELSE r

\* an unmount that keeps the queued effects of the canvas
unmountKeepingEffects(r) ==
    IF r.phase = "bound"
    THEN [cleanup(r) EXCEPT !.phase = "disposed"]
    ELSE [r EXCEPT !.phase = "disposed"]

\* an unmount that leaves the effect's cleanup out
unmountWithoutCleanup(r) ==
    [r EXCEPT !.phase = "disposed", !.effectsPending = FALSE]

\* Preact unmounts a canvas: the cleanup of an effect that has run is called
\* once; an instance whose effects have not run yet has nothing to clean up
\* (its queued effects are dropped)
unmount(r) ==
    IF r.phase = "bound"
    THEN [cleanup(r) EXCEPT !.phase = "disposed", !.effectsPending = FALSE]
    ELSE [r EXCEPT !.phase = "disposed", !.effectsPending = FALSE]

\* App renders with videoUrl = new: the canvas keyed by the old URL is
\* unmounted and a canvas keyed by the new URL is rendered with the current
\* props; its effects run later. decodable: what the new URL refers to.
Rerendered(new, decodable) ==
    [t \in Sessions |->
        IF t = new
        THEN [scene[t] EXCEPT !.phase = "mounted", !.container = TRUE,
                              !.decodable = decodable,
                              !.closureEffects = effects]
        ELSE IF t = videoUrl THEN unmount(scene[t])
        ELSE scene[t]]

\* URL.createObjectURL(blob): a URL that was never handed out before (they
\* are numbered in the order of their creation); 0 when the model has no
\* more
Unused == {s \in Sessions : scene[s].phase = "fresh"}
NewUrl == IF Unused = {} THEN 0 ELSE CHOOSE s \in Unused : \A t \in Unused : s <= t

\* URL.revokeObjectURL(url)
Revoke(url) == IF url = 0 THEN revoked ELSE revoked \cup {url}

\* App.handleFileChange with a file chosen (the old URL is revoked, the
\* object URL s is created for the file), and the render it causes
HandleFileChange(s) ==
    /\ s = NewUrl
    /\ revoked' = Revoke(videoUrl)
    /\ videoUrl' = s
    /\ isPlaying' = TRUE
    /\ \E decodable \in BOOLEAN : scene' = Rerendered(s, decodable)
    /\ UNCHANGED <<now, viewport, effects, corruptVars, procVars,
                   iFrameInterval, edits, isProcessing, job>>

\* the effects of a newly rendered canvas run, in the order of the source:
\* the initialisation effect (its guard of line 42 passes: App renders the
\* canvas only with a videoUrl, and the div is rendered), the play/pause
\* effect, the effects update effect
RunEffects(s) ==
    /\ scene[s].phase = "mounted"
    /\ scene' = [scene EXCEPT ![s] = runEffects(scene[s], isPlaying)]
    /\ UNCHANGED <<now, viewport, videoUrl, isPlaying, effects, corruptVars, procVars, appVars>>

\* App.togglePlayPause and the play/pause effect of the mounted canvas
TogglePlayPause ==
    /\ videoUrl # 0
    /\ isPlaying' = ~isPlaying
    /\ scene' = [scene EXCEPT ![videoUrl] =
                    playPauseEffect(rerender(scene[videoUrl], effects, isPlaying),
                                    ~isPlaying)]
    /\ UNCHANGED <<now, viewport, videoUrl, effects, corruptVars, procVars, appVars>>

\* the [Min, Max] of each slider, in units of 0.0001 (lines 527-634)
SliderRange ==
    [waveIntensity |-> <<0, 1000>>, waveFrequency |-> <<10000, 1000000>>,
     colorShift |-> <<0, 62800>>, speed |-> <<1000, 100000>>,
     glitchAmount |-> <<0, 2000>>, scanlineIntensity |-> <<0, 5000>>,
     staticAmount |-> <<0, 2000>>, trackingNoiseAmount |-> <<0, 5000>>,
     chromaticAberration |-> <<0, 100>>, verticalJitter |-> <<0, 50>>]

EffectNames == DOMAIN SliderRange

\* the values a slider is moved to: the two ends of its range
SliderValues(name) == {SliderRange[name][1], SliderRange[name][2]}

\* the [Min, Max] of the I-Frame Interval slider (lines 638-646)
IFrameIntervalRange == <<2, 30>>

\* setEffects(e) and the render it causes: the current canvas is rendered
\* again with the new effects prop, which queues its effects update effect
SetEffects(e) ==
    /\ edits' = edits + 1
    /\ effects' = e
    /\ scene' = [t \in Sessions |->
                    IF t = videoUrl
                    THEN [rerender(scene[t], effects, isPlaying)
                              EXCEPT !.effectsPending = TRUE]
                    ELSE scene[t]]
    /\ UNCHANGED <<now, viewport, videoUrl, isPlaying, corruptVars, procVars,
                   iFrameInterval, revoked, isProcessing, job>>

\* App.updateEffect, called by the slider of parameter name, lines 405-410
UpdateEffect(name, v) ==
    /\ edits < MaxEdits
    /\ v # effects[name]
    /\ SetEffects([effects EXCEPT ![name] = v])

\* App.resetEffects, lines 412-425
ResetEffects ==
    /\ edits < MaxEdits
    /\ SetEffects([waveIntensity |-> 0, waveFrequency |-> 0, colorShift |-> 0,
                   speed |-> 0, glitchAmount |-> 0, scanlineIntensity |-> 0,
                   staticAmount |-> 0, trackingNoiseAmount |-> 0,
                   chromaticAberration |-> 0, verticalJitter |-> 0])

\* the I-Frame Interval slider is moved: setIFrameInterval(v), and the
\* render it causes
SetIFrameInterval(v) ==
    /\ edits < MaxEdits
    /\ v # iFrameInterval
    /\ edits' = edits + 1
    /\ iFrameInterval' = v
    /\ scene' = [t \in Sessions |->
                    IF t = videoUrl THEN rerender(scene[t], effects, isPlaying)
                    ELSE scene[t]]
    /\ UNCHANGED <<now, viewport, videoUrl, isPlaying, effects, corruptVars,
                   procVars, revoked, isProcessing, job>>

\* Preact runs the queued effects update effect of a canvas
FlushEffects(s) ==
    /\ scene[s].effectsPending
    /\ scene' = [scene EXCEPT ![s] =
                    [effectsEffect(scene[s], effects) EXCEPT !.effectsPending = FALSE]]
    /\ UNCHANGED <<now, viewport, videoUrl, isPlaying, effects, corruptVars,
                   procVars, appVars>>

\* "Datamosh Video" is clicked: datamoshCurrentVideo up to its first await
\* (lines 435-447), and the render its two state changes cause
DatamoshClick(p) ==
    /\ videoUrl # 0
    /\ job[p].stage \in {"idle", "done", "failed"}
    /\ pc[p] = "idle"
    \* the run is kept in the first slot that is free
    /\ \A q \in Procs : q < p => job[q].stage \in {"fetch", "transcode"}
    /\ job' = [job EXCEPT ![p] = [stage |-> "fetch", url |-> videoUrl,
                                  interval |-> iFrameInterval, alerted |-> FALSE]]
    /\ isProcessing' = TRUE
    /\ isPlaying' = FALSE
    /\ scene' = [scene EXCEPT ![videoUrl] =
                    playPauseEffect(rerender(scene[videoUrl], effects, isPlaying), FALSE)]
    /\ UNCHANGED <<now, viewport, videoUrl, effects, corruptVars, procVars,
                   iFrameInterval, edits, revoked>>

\* a click made while no job is in flight
DatamoshClickAlone(p) ==
    /\ \A q \in Procs : job[q].stage \notin {"fetch", "transcode"}
    /\ DatamoshClick(p)

\* fetch(videoUrl) and response.blob() have resolved (the URL must still be
\* valid) and datamoshVideo is invoked, lines 447-451
FetchDone(p) ==
    /\ job[p].stage = "fetch"
    /\ job[p].url \notin revoked
    /\ DatamoshVideoCall(p)
    /\ job' = [job EXCEPT ![p].stage = "transcode"]
    /\ UNCHANGED <<corruptVars, canvasVars, iFrameInterval, edits, revoked,
                   isProcessing>>

\* the catch and finally blocks, lines 458-463, and the render that
\* setIsProcessing(false) causes
Caught(p) ==
    /\ job' = [job EXCEPT ![p].stage = "failed", ![p].alerted = TRUE]
    /\ isProcessing' = FALSE
    /\ scene' = [t \in Sessions |->
                    IF t = videoUrl THEN rerender(scene[t], effects, isPlaying)
                    ELSE scene[t]]
    /\ UNCHANGED <<now, viewport, videoUrl, isPlaying, effects, corruptVars,
                   iFrameInterval, edits, revoked>>

\* fetch or response.blob() rejects (it always does for a revoked URL)
FetchFails(p) ==
    /\ job[p].stage = "fetch"
    /\ Caught(p)
    /\ UNCHANGED procVars

\* a failing job that also revokes the URL it captured
JobFailsRevoking(p) ==
    /\ job[p].stage = "transcode"
    /\ pc[p] = "rejected"
    /\ SlotFreed(p)
    /\ job' = [job EXCEPT ![p].stage = "failed", ![p].alerted = TRUE]
    /\ isProcessing' = FALSE
    /\ revoked' = Revoke(job[p].url)
    /\ scene' = [t \in Sessions |->
                    IF t = videoUrl THEN rerender(scene[t], effects, isPlaying)
                    ELSE scene[t]]
    /\ UNCHANGED <<now, viewport, videoUrl, isPlaying, effects, corruptVars,
                   iFrameInterval, edits>>

\* the promise of datamoshVideo rejected: catch and finally
JobFails(p) ==
    /\ job[p].stage = "transcode"
    /\ pc[p] = "rejected"
    /\ SlotFreed(p)
    /\ Caught(p)

\* the promise of datamoshVideo resolved: lines 453-457 and the finally
\* block, and the render of the new URL
JobSucceeds(p) ==
    /\ job[p].stage = "transcode"
    /\ pc[p] = "resolved"
    /\ NewUrl # 0
    /\ SlotFreed(p)
    /\ revoked' = Revoke(job[p].url)
    /\ videoUrl' = NewUrl
    /\ isPlaying' = TRUE
    /\ isProcessing' = FALSE
    /\ \E decodable \in BOOLEAN : scene' = Rerendered(NewUrl, decodable)
    /\ job' = [job EXCEPT ![p].stage = "done"]
    /\ UNCHANGED <<now, viewport, effects, corruptVars, iFrameInterval, edits>>

\* a parent renders TrippyVideoCanvas under a key it has not used before,
\* with a decodable source and isPlaying = playing (App does this with
\* playing = TRUE only)
MountCanvas(s, playing) ==
    /\ s = NewUrl
    /\ videoUrl' = s
    /\ isPlaying' = playing
    /\ scene' = Rerendered(s, TRUE)
    /\ UNCHANGED <<now, viewport, effects, corruptVars, procVars, appVars>>

\* a parent renders the canvas it has rendered before (same key) with
\* another videoUrl, of a decodable source, and the effects run (App never
\* does this: its key is the URL)
ChangeSource(s) ==
    /\ s = videoUrl
    /\ scene[s].phase = "bound"
    /\ scene[s].cleanupCalls < MaxCleanups
    /\ scene' = [scene EXCEPT ![s] = changeSource(scene[s], TRUE)]
    /\ UNCHANGED <<now, viewport, videoUrl, isPlaying, effects, corruptVars,
                   procVars, appVars>>

\* the effects of a mounted canvas run and new THREE.WebGLRenderer throws:
\* Preact drops the other queued effects of the component
RunEffectsContextFails(s) ==
    /\ scene[s].phase = "mounted"
    /\ scene' = [scene EXCEPT ![s] = initEffectContextFails(scene[s])]
    /\ UNCHANGED <<now, viewport, videoUrl, isPlaying, effects, corruptVars,
                   procVars, appVars>>

\* the window is resized: every registered handleResize runs
WindowResize(size) ==
    /\ size # viewport
    /\ viewport' = size
    /\ scene' = [s \in Sessions |->
                    IF scene[s].resizeListener THEN handleResize(scene[s], size)
                    ELSE scene[s]]
    /\ UNCHANGED <<now, videoUrl, isPlaying, effects, corruptVars, procVars, appVars>>

\* time passes
Tick ==
    /\ now < MaxTime
    /\ now' = now + 1
    /\ UNCHANGED <<viewport, videoUrl, isPlaying, effects, scene, corruptVars, procVars, appVars>>

\* the browser calls the requested animation frame callback: animate(now)
AnimationFrame(s) ==
    /\ scene[s].framePending
    /\ scene' = [scene EXCEPT ![s] =
                    animate([scene[s] EXCEPT !.requests = @ - 1,
                                             !.framePending = (scene[s].requests > 1)],
                            now)]
    /\ UNCHANGED <<now, viewport, videoUrl, isPlaying, effects, corruptVars, procVars, appVars>>

\* a playing video advances and queues a timeupdate event
VideoPlays(s) ==
    /\ scene[s].video /\ scene[s].src /\ ~scene[s].paused
    /\ scene[s].decodable
    /\ ~scene[s].timeupdateQueued \/ scene[s].position = 0
    /\ scene' = [scene EXCEPT ![s] = [@ EXCEPT !.position = 1, !.timeupdateQueued = TRUE]]
    /\ UNCHANGED <<now, viewport, videoUrl, isPlaying, effects, corruptVars, procVars, appVars>>

\* the queued timeupdate event is dispatched: the listener of lines 53-55,
\* when registered, calls onTimeUpdate
TimeUpdate(s) ==
    /\ scene[s].timeupdateQueued
    /\ scene' = [scene EXCEPT ![s] =
                    [@ EXCEPT !.timeupdateQueued = FALSE,
                              !.deliveredAfterCleanup =
                                  @ \/ (scene[s].timeupdateListeners > 0
                                        /\ scene[s].cleanupCalls > 0)]]
    /\ UNCHANGED <<now, viewport, videoUrl, isPlaying, effects, corruptVars, procVars, appVars>>

\* Preact clears the ref of the unmounted canvas' div
ClearRef(s) ==
    /\ scene[s].phase = "disposed"
    /\ scene[s].container
    /\ scene' = [scene EXCEPT ![s] = [@ EXCEPT !.container = FALSE]]
    /\ UNCHANGED <<now, viewport, videoUrl, isPlaying, effects, corruptVars, procVars, appVars>>

\* the cleanup of a disposed canvas is called again
CleanupAgain(s) ==
    /\ scene[s].phase = "disposed"
    /\ scene[s].cleanupCalls > 0
    /\ scene[s].cleanupCalls < MaxCleanups
    /\ scene' = [scene EXCEPT ![s] = cleanup(scene[s])]
    /\ UNCHANGED <<now, viewport, videoUrl, isPlaying, effects, corruptVars, procVars, appVars>>

----------------------------------------------------------------------------
(* The corruptIFrames call as a state machine *)

InitCorrupt ==
    /\ data \in Inputs
    /\ out = <<>>
    /\ out2 = <<>>
    /\ cpc = "ready"

ParkedCorrupt ==
    /\ data = <<>>
    /\ out = <<>>
    /\ out2 = <<>>
    /\ cpc = "idle"

CorruptCall ==
    /\ cpc = "ready"
    /\ out' = corruptIFrames(data)
    /\ cpc' = "done"
    /\ UNCHANGED <<data, out2>>

\* corruptIFrames is called on what the first call returned
CorruptAgainCall ==
    /\ cpc = "done"
    /\ out2' = corruptIFrames(out)
    /\ cpc' = "again"
    /\ UNCHANGED <<data, out>>

vars == <<corruptVars, procVars, canvasVars, appVars>>

Corrupt ==
    /\ CorruptCall
    /\ UNCHANGED <<procVars, canvasVars, appVars>>

CorruptAgain ==
    /\ CorruptAgainCall
    /\ UNCHANGED <<procVars, canvasVars, appVars>>

NextCorrupt == Corrupt \/ CorruptAgain

InitSpecCorrupt == InitCorrupt /\ InitProc /\ InitCanvas /\ InitApp

SpecCorrupt == InitSpecCorrupt /\ [][NextCorrupt]_vars

\* calls of datamoshVideo that may overlap (App.datamoshCurrentVideo starts
\* one per click and nothing disables the button while one runs)
NextProc ==
    \E p \in Procs :
        \/ DatamoshVideo(p)
        \/ LoadDone(p)
        \/ WriteInput(p)
        \/ Encode(p)
        \/ ReadRaw(p)
        \/ WriteCorrupted(p)
        \/ Remux(p)
        \/ ReadOutput(p)
        \/ DeleteFile(p)
        \/ EngineThrows(p)
        \/ ExecReportsFailure(p)
        \/ Settled(p)

InitSpecProc == ParkedCorrupt /\ InitProc /\ InitCanvas /\ InitApp

SpecProc == InitSpecProc /\ [][NextProc]_vars

\* calls of datamoshVideo one after the other
NextProcSeq ==
    \E p \in Procs :
        \/ DatamoshVideoAlone(p)
        \/ LoadDone(p)
        \/ WriteInput(p)
        \/ Encode(p)
        \/ ReadRaw(p)
        \/ WriteCorrupted(p)
        \/ Remux(p)
        \/ ReadOutput(p)
        \/ DeleteFile(p)
        \/ EngineThrows(p)
        \/ ExecReportsFailure(p)
        \/ Settled(p)

SpecProcSeq == InitSpecProc /\ [][NextProcSeq]_vars

\* the canvas as App drives it
NextCanvas ==
    \/ \E s \in Sessions : HandleFileChange(s)
    \/ \E s \in Sessions : RunEffects(s)
    \/ TogglePlayPause
    \/ \E size \in Sizes : WindowResize(size)
    \/ Tick
    \/ \E s \in Sessions : AnimationFrame(s)
    \/ \E s \in Sessions : VideoPlays(s)
    \/ \E s \in Sessions : TimeUpdate(s)
    \/ \E s \in Sessions : ClearRef(s)

InitSpecCanvas == ParkedCorrupt /\ InitProc /\ InitCanvas /\ InitApp

SpecCanvas == InitSpecCanvas /\ [][NextCanvas]_vars

\* file selections, at any time, and datamosh jobs one after the other
NextApp ==
    \/ \E s \in Sessions : HandleFileChange(s)
    \/ \E s \in Sessions : RunEffects(s)
    \/ \E p \in Procs :
        \/ DatamoshClickAlone(p)
        \/ FetchDone(p)
        \/ FetchFails(p)
        \/ LoadDone(p)
        \/ WriteInput(p)
        \/ Encode(p)
        \/ ReadRaw(p)
        \/ WriteCorrupted(p)
        \/ Remux(p)
        \/ ReadOutput(p)
        \/ DeleteFile(p)
        \/ EngineThrows(p)
        \/ JobFails(p)
        \/ JobSucceeds(p)

InitSpecApp == ParkedCorrupt /\ InitProc /\ InitCanvas /\ InitApp

SpecApp == InitSpecApp /\ [][NextApp]_vars

\* clicks on Datamosh Video at any time, also while a job runs, with file
\* selections; of the failures only that of fetch is
\* followed (the engine invocations do not throw)
NextJobs ==
    \/ \E s \in Sessions : HandleFileChange(s)
    \/ \E p \in Procs :
        \/ DatamoshClick(p)
        \/ FetchDone(p)
        \/ FetchFails(p)
        \/ LoadDone(p)
        \/ WriteInput(p)
        \/ Encode(p)
        \/ ReadRaw(p)
        \/ WriteCorrupted(p)
        \/ Remux(p)
        \/ ReadOutput(p)
        \/ DeleteFile(p)
        \/ JobSucceeds(p)

InitSpecJobs == ParkedCorrupt /\ InitProc /\ InitCanvas /\ InitApp

SpecJobs == InitSpecJobs /\ [][NextJobs]_vars

\* the canvas with the parameter controls of App
NextParams ==
    \/ \E s \in Sessions : HandleFileChange(s)
    \/ \E s \in Sessions : RunEffects(s)
    \/ \E name \in EffectNames : \E v \in SliderValues(name) : UpdateEffect(name, v)
    \/ ResetEffects
    \/ \E v \in {IFrameIntervalRange[1], IFrameIntervalRange[2]} : SetIFrameInterval(v)
    \/ \E s \in Sessions : FlushEffects(s)
    \/ \E s \in Sessions : AnimationFrame(s)

InitSpecParams == ParkedCorrupt /\ InitProc /\ InitCanvas /\ InitApp

SpecParams == InitSpecParams /\ [][NextParams]_vars

\* TrippyVideoCanvas under any parent: mounted with either isPlaying, its
\* videoUrl changed in place, its WebGL context refused (the clock stands
\* still)
NextComponent ==
    \/ \E s \in Sessions : \E playing \in BOOLEAN : MountCanvas(s, playing)
    \/ \E s \in Sessions : RunEffects(s)
    \/ \E s \in Sessions : RunEffectsContextFails(s)
    \/ \E s \in Sessions : ChangeSource(s)
    \/ TogglePlayPause
    \/ ResetEffects
    \/ \E s \in Sessions : FlushEffects(s)
    \/ \E size \in Sizes : WindowResize(size)
    \/ \E s \in Sessions : AnimationFrame(s)

InitSpecComponent == ParkedCorrupt /\ InitProc /\ InitCanvas /\ InitApp

SpecComponent == InitSpecComponent /\ [][NextComponent]_vars

\* the canvas with its cleanup called more than once (the clock stands
\* still: the cleanup does not read it)
NextCleanupTwice ==
    \/ \E s \in Sessions : HandleFileChange(s)
    \/ \E s \in Sessions : RunEffects(s)
    \/ TogglePlayPause
    \/ \E size \in Sizes : WindowResize(size)
    \/ \E s \in Sessions : AnimationFrame(s)
    \/ \E s \in Sessions : VideoPlays(s)
    \/ \E s \in Sessions : TimeUpdate(s)
    \/ \E s \in Sessions : ClearRef(s)
    \/ \E s \in Sessions : CleanupAgain(s)

SpecCleanupTwice == InitSpecCanvas /\ [][NextCleanupTwice]_vars

----------------------------------------------------------------------------
(* What the specification says corrupt returns *)

\* a start code begins at index s
StartCodeAt(d, s) == s + 3 < Len(d) /\ IsStartCode(d, s)

\* a start code begins at index s and the byte after it has type 5
IdrAt(d, s) == s + 4 < Len(d) /\ IsStartCode(d, s) /\ At(d, s + 4) % 32 = 5

\* index p lies in a type-5 unit: from its start code up to the next start code
Excluded(d, p) ==
    \E s \in 0..p :
        /\ IdrAt(d, s)
        /\ \A t \in (s + 1)..p : ~StartCodeAt(d, t)

RECURSIVE KeepFrom(_, _)
KeepFrom(d, p) ==
    IF p >= Len(d) THEN <<>>
    ELSE IF Excluded(d, p) THEN KeepFrom(d, p + 1)
         ELSE <<At(d, p)>> \o KeepFrom(d, p + 1)

\* the input with the bytes of its type-5 units removed
Stripped(d) == KeepFrom(d, 0)

\* C1: corrupt returns the input with exactly the bytes of its type-5 units
\* (start code included, up to the next start code) removed and the other
\* bytes in their order; the example stream yields its second unit only.
C1_StripsIdrUnits ==
    cpc \in {"done", "again"} =>
        /\ out = Stripped(data)
        /\ (data = ExampleStream => out = <<0, 0, 0, 1, 65, 204, 221>>)

\* C2: the output of corrupt holds no start code 00 00 00 01 immediately
\* followed by a byte of type 5.
C2_NoIdrInOutput ==
    cpc \in {"done", "again"} => \A s \in 0..(Len(out) - 1) : ~IdrAt(out, s)

\* the input holds a start code somewhere
HasStartCode(d) == \E s \in 0..(Len(d) - 1) : StartCodeAt(d, s)

\* the input holds a type-5 unit somewhere
HasIdr(d) == \E s \in 0..(Len(d) - 1) : IdrAt(d, s)

\* C19: corrupt is idempotent: corrupt(corrupt(x)) = corrupt(x) for every
\* input x.
C19_Idempotent == cpc = "again" => out2 = out

\* a second call was made on the output of an input with a type-5 unit
C19_Witness == cpc = "again" /\ HasIdr(data) /\ Len(out) >= 5

\* C20: an input with no start code 00 00 00 01 (inputs shorter than five
\* bytes and the empty input included) is returned unchanged.
C20_NoStartCodeUnchanged ==
    (cpc \in {"done", "again"} /\ ~HasStartCode(data)) => out = data

\* a call returned for an input of five bytes or more without a start code
C20_Witness ==
    cpc = "done" /\ ~HasStartCode(data) /\ Len(data) >= 5 /\ out = data

----------------------------------------------------------------------------
(* The offline transcoder *)

\* the call in slot p has finished: its promise is settled
Finished(p) == pc[p] \in {"resolved", "rejected"}

\* C3: once datamoshVideo has finished, with an output or with a failure at
\* any stage, none of input.mp4, raw.h264, corrupted.h264, output.mp4 is left
\* in the engine's file namespace.
C3_NoTemporariesLeft ==
    \A p \in Procs : Finished(p) => \A f \in Files : fs[f] = NoFile

\* the engine invocations of the encode pass, the corrupt pass (read the raw
\* stream, write the corrupted one) and the remux pass
PassStages == {"encode", "readRaw", "writeCorrupted", "remux"}

\* C4: a call whose encode, corrupt or remux pass failed (the engine
\* invocation threw or reported failure) fails with a TranscodeError and
\* never resolves with an output.
C4_FailsWithTranscodeError ==
    \A p \in Procs :
        (Finished(p) /\ failed[p] \in PassStages) =>
            /\ result[p].kind = "rejected"
            /\ result[p].value = "TranscodeError"

\* C5: however the first calls interleave, ffmpeg.load is invoked at most
\* once (as long as no load has thrown).
C5_LoadAtMostOnce == ~loadThrew => loadCount <= 1

\* C6: with calls running concurrently, every call that returns an output
\* returns one derived from its own input bytes only.
C6_OutputFromOwnInput ==
    \A p \in Procs : pc[p] = "resolved" => result[p].origin = callId[p]

\* C7: in a sequence of calls, one after the other, no call reads a raw.h264
\* or an output.mp4 that an earlier call wrote.
C7_NoStaleTemporaryRead ==
    \A p \in Procs :
        /\ rawData[p] # NoFile => rawData[p].writer = callId[p]
        /\ outputData[p] # NoFile => outputData[p].writer = callId[p]

----------------------------------------------------------------------------
(* The canvas and its cleanup *)

\* the cleanup of canvas s has run
CleanedUp(s) == scene[s].cleanupCalls > 0

\* C8: running the cleanup of a canvas a second time raises no error and
\* does not release the rendering context (renderer.dispose()) a second time.
C8_SecondCleanupIsNoOp ==
    \A s \in Sessions :
        scene[s].cleanupCalls >= 2 =>
            /\ ~scene[s].cleanupThrew
            /\ scene[s].disposeCalls <= 1

\* C9: after the cleanup of a canvas, neither its resize handler nor its
\* timeupdate handler is registered, and no onTimeUpdate call is delivered.
C9_NoObserversAfterCleanup ==
    \A s \in Sessions :
        CleanedUp(s) =>
            /\ ~scene[s].resizeListener
            /\ scene[s].timeupdateListeners = 0
            /\ ~scene[s].deliveredAfterCleanup

\* C10: after the cleanup of a canvas, everything its initialisation
\* acquired is released: the renderer, the video texture, and the video is
\* paused and unloaded.
C10_AllReleasedAfterCleanup ==
    \A s \in Sessions :
        CleanedUp(s) =>
            /\ scene[s].renderer # "live"
            /\ scene[s].texture # "live"
            /\ scene[s].paused
            /\ ~scene[s].src

\* C11: a canvas whose source cannot be loaded or decoded is never bound and
\* no rendering context is allocated for it.
C11_UnreadableSourceStaysUnbound ==
    \A s \in Sessions :
        ~scene[s].decodable =>
            /\ scene[s].phase # "bound"
            /\ scene[s].renderer = "none"

\* the resources of canvas s a new canvas must not overlap with
Holds(s) ==
    \/ scene[s].renderer = "live"
    \/ scene[s].src
    \/ scene[s].framePending
    \/ scene[s].resizeListener

\* C12: when the source changes, the old canvas is cleaned up before the new
\* one creates anything: while a canvas is bound no other canvas has a live
\* renderer, a loaded source, a pending animation frame or a resize handler,
\* so there is at most one of each.
C12_OldDisposedBeforeNewCreated ==
    /\ \A s, t \in Sessions :
            (s # t /\ scene[s].phase = "bound") => ~Holds(t)
    /\ Cardinality({s \in Sessions : scene[s].renderer = "live"}) <= 1
    /\ Cardinality({s \in Sessions : scene[s].src}) <= 1
    /\ Cardinality({s \in Sessions : scene[s].framePending}) <= 1

\* a canvas is bound after another one, which was bound, has been unmounted
C12_Witness ==
    \E s, t \in Sessions :
        /\ s # t
        /\ scene[s].phase = "bound" /\ scene[s].renderer = "live"
        /\ scene[t].phase = "disposed" /\ CleanedUp(t)

(* The effect parameters *)

\* C13: once the effects update effect of a bound canvas has run, each of
\* its ten uniforms equals the effects value it was given, in range or not,
\* the next frame drawn reads exactly these values, and the canvas has
\* constructed one material only.
C13_UniformsFollowUpdate ==
    \A s \in Sessions :
        (scene[s].phase = "bound" /\ ~scene[s].effectsPending) =>
            /\ scene[s].uniforms = effects
            /\ scene[s].drawnSinceWrite => scene[s].drawn = effects
            /\ scene[s].materialsCreated = 1

\* a bound canvas has drawn a frame with values it was given after its
\* initialisation
C13_Witness ==
    \E s \in Sessions :
        /\ scene[s].phase = "bound" /\ ~scene[s].effectsPending
        /\ scene[s].drawnSinceWrite
        /\ scene[s].drawn # scene[s].closureEffects

C15_FirstFrameHasLatest ==
    [][\A s \in Sessions :
          (scene[s].phase = "mounted" /\ scene'[s].phase = "bound") =>
              scene'[s].drawn = effects']_vars

\* C15, amended: the first frame a canvas draws has the uniforms at the
\* effect parameters of the render that mounted it (every change made before
\* that render is in them), and a change made between that render and the
\* first run of the effects is queued and not lost.
C15_AppliedOnBind ==
    [][\A s \in Sessions :
          (scene[s].phase = "mounted" /\ scene'[s].phase = "bound") =>
              /\ scene'[s].drawn = scene[s].closureEffects
              /\ scene'[s].uniforms = scene[s].closureEffects
              /\ scene'[s].uniforms # effects' => scene'[s].effectsPending]_vars

\* a canvas mounted after a change of the parameters has drawn its first
\* frame with the changed values
C15_Witness ==
    \E s \in Sessions :
        /\ scene[s].phase = "bound"
        /\ scene[s].closureEffects # defaultEffects
        /\ scene[s].drawn = scene[s].closureEffects

\* the effect parameters e are within the ranges of their sliders
InRange(e) ==
    \A name \in EffectNames :
        SliderRange[name][1] <= e[name] /\ e[name] <= SliderRange[name][2]

\* C18: the effect parameters handed to the canvas are always within the
\* [Min, Max] of the parameter table, and iFrameInterval is within 2..30.
C18_ParametersInRange ==
    /\ InRange(effects)
    /\ \A s \in Sessions : scene[s].material # "none" => InRange(scene[s].uniforms)
    /\ IFrameIntervalRange[1] <= iFrameInterval
    /\ iFrameInterval <= IFrameIntervalRange[2]

(* Object URLs and datamosh jobs *)

\* the object URLs that were created
Created == {u \in Sessions : scene[u].phase # "fresh"}

\* C16: every object URL that was created and is not the current video any
\* more has been revoked.
C16_SupersededUrlsRevoked ==
    \A u \in Created : u # videoUrl => u \in revoked

\* job p fails in this step
Fails(p) == job[p].stage \in {"fetch", "transcode"} /\ job'[p].stage = "failed"

C22_DrawLoopIndependentOfPlayback ==
    [][\A s \in Sessions :
          (scene[s].phase = "bound" /\ scene'[s].phase = "bound") =>
              /\ scene'[s].framePending
              /\ isPlaying' # isPlaying =>
                     scene'[s] = [scene[s] EXCEPT !.paused = ~isPlaying']
              /\ (scene[s].paused /\ scene'[s].lastTime # scene[s].lastTime) =>
                     scene'[s].uTime =
                         scene[s].uTime + (scene'[s].lastTime - scene[s].lastTime)]_vars

\* a bound canvas whose video is paused has its time uniform advanced and
\* its next frame requested
C22_Witness ==
    \E s \in Sessions :
        /\ scene[s].phase = "bound" /\ ~isPlaying /\ scene[s].paused
        /\ scene[s].framePending
        /\ scene[s].uTime > 0
        /\ scene[s].materialsCreated = 1

\* C24: once the cleanup of a canvas has run, none of its animation frame
\* requests is pending, and no later step draws a frame of it or advances
\* its uTime.
C24_DisposeStopsDrawLoop ==
    [][\A s \in Sessions :
          CleanedUp(s) =>
              /\ ~scene[s].framePending /\ scene[s].requests = 0
              /\ ~scene'[s].framePending /\ scene'[s].requests = 0
              /\ scene'[s].uTime = scene[s].uTime
              /\ scene'[s].lastTime = scene[s].lastTime
              /\ scene'[s].drawnAt = scene[s].drawnAt]_vars

\* the cleanup of a canvas whose loop was running has run, and time has
\* passed since its last frame
C24_Witness ==
    \E s \in Sessions :
        /\ CleanedUp(s)
        /\ scene[s].animationId # 0 /\ scene[s].requests = 0
        /\ now > scene[s].drawnAt

\* C25: when the effects of a canvas with a decodable source run for the
\* first time, whatever isPlaying is, the canvas ends up with its next
\* frame requested and its video playing, muted and looping.
C25_PlayingAfterBind ==
    [][\A s \in Sessions :
          (/\ scene[s].phase = "mounted" /\ scene'[s].phase = "bound"
           /\ scene[s].decodable
           /\ isPlaying' = isPlaying) =>
              /\ scene'[s].framePending
              /\ ~scene'[s].paused
              /\ scene'[s].muted
              /\ scene'[s].loop]_vars

\* canvas s draws a frame in this step (and is not initialised again)
Draws(s) ==
    /\ scene[s].phase = "bound" /\ scene'[s].phase = "bound"
    /\ scene'[s].materialsCreated = scene[s].materialsCreated
    /\ \/ scene'[s].lastTime # scene[s].lastTime
       \/ scene'[s].drawnAt # scene[s].drawnAt
       \/ scene'[s].uTime # scene[s].uTime

\* C26: every frame a canvas draws, the first one the browser schedules
\* after the initialisation included, adds to uTime exactly the time that
\* has passed since the canvas drew its previous frame, and uTime never
\* decreases.
C26_TimeAdvancesByElapsed ==
    [][\A s \in Sessions :
          Draws(s) =>
              /\ scene'[s].uTime = scene[s].uTime + (now' - scene[s].drawnAt)
              /\ scene'[s].uTime >= scene[s].uTime]_vars

\* C27: no canvas ever has more than one animation frame request pending.
C27_OnePendingRequest ==
    \A s \in Sessions : scene[s].requests <= 1

\* a canvas whose source was changed in place has restarted its loop, with
\* one request pending
C27_Witness ==
    \E s \in Sessions :
        /\ scene[s].phase = "bound" /\ scene[s].cleanupCalls > 0
        /\ scene[s].materialsCreated > 1
        /\ scene[s].requests = 1

\* C29: a canvas whose WebGL context could not be created is not bound and
\* holds nothing of what its initialisation acquired before: no video
\* element, no timeupdate listener, no loaded source.
C29_NothingHeldAfterContextFailure ==
    \A s \in Sessions :
        scene[s].contextFailed =>
            /\ scene[s].phase # "bound"
            /\ ~scene[s].video
            /\ scene[s].timeupdateListeners = 0
            /\ ~scene[s].src

\* C30: the video of a bound canvas is paused exactly when isPlaying is
\* false.
C30_PlaybackAgreesWithIsPlaying ==
    \A s \in Sessions :
        scene[s].phase = "bound" => (scene[s].paused <=> ~isPlaying)

(* Jobs and passes *)

\* the datamoshVideo call in slot p has been invoked and has not settled
InFlight(p) == pc[p] \in EngineStages

C28_PassesInOrder ==
    [][\A p \in Procs :
          /\ (pc'[p] = "readRaw" /\ pc[p] # "readRaw") => pc[p] = "encode"
          /\ (pc'[p] = "writeCorrupted" /\ pc[p] # "writeCorrupted") =>
                 /\ pc[p] = "readRaw"
                 /\ rawData'[p].writer = callId[p]
          /\ (pc'[p] = "remux" /\ pc[p] # "remux") =>
                 /\ pc[p] = "writeCorrupted"
                 /\ fs'["corrupted.h264"].writer = callId[p]
          /\ (pc'[p] = "readOutput" /\ pc[p] # "readOutput") => pc[p] = "remux"
          /\ (pc'[p] = "delInput" /\ pc[p] # "delInput") => pc[p] = "readOutput"]_vars

(* corruptIFrames and the length of its result *)

====
